---- MODULE Spec2Model ----
(***************************************************************************)
(* State-machine model of src/src/App.jsx (the App component, lines 1-412):*)
(* the persisted venture list, the two market-data fetches, the crypto     *)
(* revenue patch, the save effect and the derived metrics.                 *)
(*                                                                         *)
(* React is modelled by its documented rules: a handler reads the state of *)
(* the render that created it; setState calls are queued and applied, in   *)
(* the order they were queued, by the next render; passive effects         *)
(* (useEffect) of a commit run after that commit and always before the     *)
(* next render; a click is a discrete event whose update is rendered and   *)
(* committed before the next event is delivered.                           *)
(*                                                                         *)
(* Units: equity prices and bitcoinValue are held in cents (integers),     *)
(* revenues, bitcoin spot prices and stock values in whole dollars.        *)
(* Math.round reads only the integer part in cents of its argument, so     *)
(* holding floor(100 * v) loses nothing that the code computes.            *)
(***************************************************************************)
EXTENDS Integers, Sequences, FiniteSets, TLC

(***************************************************************************)
(* Bounds of the model (not program constants).                            *)
(***************************************************************************)
\* number of clicks on "Add Venture" / a delete button that are explored
MaxOps == 2
\* first reading of Date.now() (milliseconds); later readings never go back
Epoch == 1000

(***************************************************************************)
(* Program constants.                                                      *)
(***************************************************************************)
INITIAL_INVESTMENT == 10000
\* 89.83 dollars, in cents
GOOGLE_START_PRICE == 8983
BTC_INVESTMENT == 1000
\* 117384.44 dollars, in cents
BTC_PRICE_AUG_2025 == 11738444
\* fallback bitcoin spot price, dollars
estimatedPrice == 105000
\* fallback equity price 197 dollars, in cents
estimatedGooglePrice == 19700
\* id of the crypto record appended by the load migration
BITCOIN_ID == 8

(***************************************************************************)
(* JavaScript values that can be a number or one of null, undefined, NaN.  *)
(***************************************************************************)
Null == [t |-> "null", n |-> 0]
Undefined == [t |-> "undefined", n |-> 0]
NaN == [t |-> "NaN", n |-> 0]
Num(x) == [t |-> "num", n |-> x]

IsNum(v) == v.t = "num"

\* JavaScript truthiness of such a value: null, undefined, NaN and 0 are falsy
Truthy(v) == v.t = "num" /\ v.n # 0

\* parseFloat(x) || 0 for a stored revenue: null, undefined and NaN give 0
ParseFloatOrZero(v) == IF Truthy(v) THEN v.n ELSE 0

(***************************************************************************)
(* Arithmetic.                                                             *)
(***************************************************************************)
\* quotient and remainder of n * 10^k / c, without forming n * 10^k
RECURSIVE DivPow10(_, _, _)
DivPow10(n, c, k) ==
    IF k = 0
    THEN [q |-> n \div c, r |-> n % c]
    ELSE LET d == DivPow10(n, c, k - 1)
         IN  [q |-> 10 * d.q + ((10 * d.r) \div c), r |-> (10 * d.r) % c]

\* btcAmount * price, in cents (rounded down), for a spot price in dollars:
\* (BTC_INVESTMENT / 117384.44) * price * 100 = price * 10^7 / 11738444
BtcValueCents(price) == DivPow10(price, BTC_PRICE_AUG_2025, 7).q

\* Math.round(bitcoinValue - BTC_INVESTMENT): floor(v - 1000 + 0.5)
RoundProfit(value) ==
    IF value.t = "num"
    THEN Num((value.n - 100 * BTC_INVESTMENT + 50) \div 100)
    ELSE NaN

\* the same with the start price of the earlier revision of the component (88.73)
RoundStockValueOldStart(price) ==
    (2 * INITIAL_INVESTMENT * price + 8873) \div (2 * 8873)

\* Math.round(shares * price), shares = INITIAL_INVESTMENT / GOOGLE_START_PRICE,
\* for a price in cents: floor(10000 * price / 8983 + 0.5)
RoundStockValue(price) ==
    (2 * INITIAL_INVESTMENT * price + GOOGLE_START_PRICE)
        \div (2 * GOOGLE_START_PRICE)

(***************************************************************************)
(* Ventures.                                                               *)
(***************************************************************************)
Venture(id, name, revenue, expenses, isBitcoin) ==
    [id |-> id, name |-> name, revenue |-> revenue, expenses |-> expenses,
     isBitcoin |-> isBitcoin]

initialVentures ==
    << Venture(1, "Rarely open coffee cart", Num(0), "Time wasted", FALSE),
       Venture(2, "Questionably exploitative house cleaning service", Num(0),
               "Online training course", FALSE),
       Venture(3, "Vague restaurant/food cart", Num(0), "Time wasted", FALSE),
       Venture(4, "PYOP + Kiln", Num(0), "$100", FALSE),
       Venture(5, "CRE Cleaning Franchise (also maybe exploitative)", Num(0),
               "Time wasted", FALSE),
       Venture(6, "Alarm and security company", Num(0), "Time wasted", FALSE),
       Venture(7, "Wilmington-based landscaping", Num(0), "Time wasted", FALSE),
       Venture(BITCOIN_ID, "Bitcoin Investor", Num(0), "$1,000", TRUE) >>

\* the record the load migration appends
bitcoinVenture == Venture(BITCOIN_ID, "Bitcoin Investor", Num(0), "$1,000", TRUE)

BitcoinCount(list) == Cardinality({i \in DOMAIN list : list[i].isBitcoin})

(***************************************************************************)
(* localStorage under the key 'alexVentures_v2'.                           *)
(* kind: "absent"    getItem returns null                                  *)
(*       "empty"     the empty string                                      *)
(*       "malformed" text that JSON.parse rejects                          *)
(*       "null"      the text  null                                        *)
(*       "object"    the text of a JSON object                             *)
(*       "array"     the text of a JSON array of venture records (list)    *)
(***************************************************************************)
Stored(kind, list) == [kind |-> kind, list |-> list]

\* JSON.stringify of a venture list: NaN is written as null
Stringify(list) ==
    Stored("array",
           [i \in DOMAIN list |->
               IF list[i].revenue.t = "NaN"
               THEN [list[i] EXCEPT !.revenue = Null]
               ELSE list[i]])

\* the initializer without the test for an existing crypto record
LoadVenturesAlwaysAppend(saved) ==
    CASE saved.kind \in {"absent", "empty"} ->
            [ok |-> TRUE, list |-> initialVentures]
      [] saved.kind \in {"malformed", "null", "object"} ->
            [ok |-> FALSE, list |-> <<>>]
      [] saved.kind = "array" ->
            [ok |-> TRUE, list |-> Append(saved.list, bitcoinVenture)]

\* the useState initializer of ventures: ok = FALSE when it throws
LoadVentures(saved) ==
    CASE saved.kind \in {"absent", "empty"} ->
            [ok |-> TRUE, list |-> initialVentures]
      [] saved.kind = "malformed" ->
            \* JSON.parse throws SyntaxError
            [ok |-> FALSE, list |-> <<>>]
      [] saved.kind \in {"null", "object"} ->
            \* parsed.find is not callable: TypeError
            [ok |-> FALSE, list |-> <<>>]
      [] saved.kind = "array" ->
            [ok |-> TRUE,
             list |-> IF BitcoinCount(saved.list) = 0
                      THEN Append(saved.list, bitcoinVenture)
                      ELSE saved.list]

\* the values found under the storage key when the component is constructed
PersistedValues ==
    { Stored("absent", <<>>),
      Stored("empty", <<>>),
      Stored("malformed", <<>>),
      Stored("null", <<>>),
      Stored("object", <<>>),
      \* what the program itself saved from the seed list
      Stringify(initialVentures),
      \* legacy lists saved without a crypto record
      Stored("array", << initialVentures[1], initialVentures[4] >>),
      Stored("array", << Venture(BITCOIN_ID, "Food truck", Num(0), "$20", FALSE) >>),
      \* a list holding two crypto records
      Stored("array", << initialVentures[1], bitcoinVenture,
                         Venture(9, "Bitcoin Investor", Num(0), "$1,000", TRUE) >>) }

(***************************************************************************)
(* State.                                                                  *)
(***************************************************************************)
VARIABLES
    storage,        \* localStorage['alexVentures_v2']
    crashed,        \* the useState initializer threw: the component never mounts
    mounted,        \* the effects of the first commit have run
    ventures,       \* the committed venture list, the one handlers close over
    queue,          \* setVentures calls not yet applied by a render
    savePending,    \* a commit changed ventures and the save effect has not run
    patchPending,   \* a commit changed bitcoinValue and its effect has not run
    bitcoinPrice,
    bitcoinValue,
    btcPc,          \* fetchBitcoinPrice: "idle", "fetching", "done"
    btcResponse,    \* what the price request produced
    googlePrice,
    googleHistory,
    loading,
    error,
    eqPc,           \* fetchGoogleStock: "idle", "yahoo", "proxy", "done"
    yahooResponse,  \* what the primary request produced
    proxyAttempts,  \* calls of fetchViaProxy
    clock,          \* last reading of Date.now()
    ops             \* clicks handled so far

storeVars == << storage, crashed, mounted, ventures, queue, savePending,
                patchPending, clock, ops >>
btcVars == << bitcoinPrice, bitcoinValue, btcPc, btcResponse >>
eqVars == << googlePrice, googleHistory, loading, error, eqPc, yahooResponse,
             proxyAttempts >>
vars == << storage, crashed, mounted, ventures, queue, savePending,
           patchPending, clock, ops, bitcoinPrice, bitcoinValue, btcPc,
           btcResponse, googlePrice, googleHistory, loading, error, eqPc,
           yahooResponse, proxyAttempts >>

NoHistory == [source |-> "none", points |-> <<>>]

Init ==
    /\ storage \in PersistedValues
    /\ crashed = ~LoadVentures(storage).ok
    /\ ventures = LoadVentures(storage).list
    /\ mounted = FALSE
    /\ queue = <<>>
    /\ savePending = FALSE
    /\ patchPending = FALSE
    /\ bitcoinPrice = Null
    /\ bitcoinValue = Null
    /\ btcPc = "idle"
    /\ btcResponse = "none"
    /\ googlePrice = Null
    /\ googleHistory = NoHistory
    /\ loading = TRUE
    /\ error = Null
    /\ eqPc = "idle"
    /\ yahooResponse = "none"
    /\ proxyAttempts = 0
    /\ clock = Epoch
    /\ ops = 0

(***************************************************************************)
(* setVentures and its queue.                                              *)
(***************************************************************************)
\* setVentures(list)
SetUpdate(list) == [kind |-> "set", list |-> list, rev |-> Null]

\* setVentures(prev => prev.map(v => v.isBitcoin ? {...v, revenue} : v))
PatchUpdate(rev) == [kind |-> "patch", list |-> <<>>, rev |-> rev]

ApplyUpdate(u, prev) ==
    IF u.kind = "set"
    THEN u.list
    ELSE [i \in DOMAIN prev |->
            IF prev[i].isBitcoin
            THEN [prev[i] EXCEPT !.revenue = u.rev]
            ELSE prev[i]]

\* a render applies the queued updates in the order they were queued
RECURSIVE ApplyQueue(_, _)
ApplyQueue(q, prev) ==
    IF q = <<>> THEN prev ELSE ApplyQueue(Tail(q), ApplyUpdate(Head(q), prev))

\* the update the bitcoinValue effect queues
BitcoinEffectUpdate == PatchUpdate(RoundProfit(bitcoinValue))

(***************************************************************************)
(* Effects of the first commit: save, start both fetches; the bitcoinValue *)
(* effect finds null and does nothing.                                     *)
(***************************************************************************)
MountEffects ==
    /\ ~crashed
    /\ ~mounted
    /\ mounted' = TRUE
    /\ storage' = Stringify(ventures)
    /\ eqPc' = "yahoo"
    /\ loading' = TRUE
    /\ error' = Null
    /\ btcPc' = "fetching"
    /\ UNCHANGED << crashed, ventures, queue, savePending, patchPending, clock,
                    ops, bitcoinPrice, bitcoinValue, btcResponse, googlePrice,
                    googleHistory, yahooResponse, proxyAttempts >>

(***************************************************************************)
(* A click: the handler queues its update from the list it closed over;    *)
(* the effects still pending from the previous commit run before the       *)
(* render; the render applies the whole queue; the commit's save effect    *)
(* runs before the next event.                                             *)
(***************************************************************************)
HandleClick(update) ==
    LET q1 == Append(queue, update)
        q2 == IF patchPending THEN Append(q1, BitcoinEffectUpdate) ELSE q1
        next == ApplyQueue(q2, ventures)
    IN  /\ ventures' = next
        /\ queue' = <<>>
        /\ patchPending' = FALSE
        /\ savePending' = FALSE
        /\ storage' = Stringify(next)

\* String.prototype.trim(): leading and trailing blanks removed
RECURSIVE TrimStart(_)
TrimStart(str) ==
    IF str = "" THEN ""
    ELSE IF Head(str) = " " THEN TrimStart(Tail(str)) ELSE str

RECURSIVE TrimEnd(_)
TrimEnd(str) ==
    IF str = "" THEN ""
    ELSE IF SubSeq(str, Len(str), Len(str)) = " "
         THEN TrimEnd(SubSeq(str, 1, Len(str) - 1))
         ELSE str

Trim(str) == TrimEnd(TrimStart(str))

\* the test without trim(): only the empty field is rejected
BlankNoTrim(name) == name = ""

\* !newVenture.name.trim()
Blank(name) == Trim(name) = ""

NameInputs == {"", "  ", "Artisanal Pickle Stand"}
\* parseFloat(newVenture.revenue): the initial 0, an emptied field (NaN), a
\* typed number
RevenueInputs == {Num(0), NaN, Num(250)}
ExpensesInputs == {"", "$50"}

addVenture(name, revenue, expenses, now) ==
    /\ mounted
    /\ ops < MaxOps
    /\ ops' = ops + 1
    /\ IF Blank(name)
       THEN UNCHANGED << storage, ventures, queue, savePending, patchPending,
                         clock >>
       ELSE /\ HandleClick(SetUpdate(Append(ventures,
                    Venture(now, name, Num(ParseFloatOrZero(revenue)),
                            IF expenses = "" THEN "Time wasted" ELSE expenses,
                            FALSE))))
            /\ clock' = now
    /\ UNCHANGED << crashed, mounted >>
    /\ UNCHANGED btcVars
    /\ UNCHANGED eqVars

\* reached only through the delete button, rendered for rows without isBitcoin
deleteVenture(id) ==
    /\ mounted
    /\ ops < MaxOps
    /\ \E i \in DOMAIN ventures : ventures[i].id = id /\ ~ventures[i].isBitcoin
    /\ ops' = ops + 1
    /\ HandleClick(SetUpdate(SelectSeq(ventures, LAMBDA v : v.id # id)))
    /\ UNCHANGED << crashed, mounted, clock >>
    /\ UNCHANGED btcVars
    /\ UNCHANGED eqVars

(***************************************************************************)
(* The render React schedules for queued updates that no click flushed     *)
(* (the bitcoinValue effect's update): it waits for pending effects.       *)
(***************************************************************************)
\* Render with a save effect that a commit does not schedule (deps [] for [ventures])
RenderNoSave ==
    /\ mounted
    /\ queue # <<>>
    /\ ~savePending
    /\ ~patchPending
    /\ ventures' = ApplyQueue(queue, ventures)
    /\ queue' = <<>>
    /\ UNCHANGED << storage, crashed, mounted, savePending, patchPending, clock, ops >>
    /\ UNCHANGED << bitcoinPrice, bitcoinValue, btcPc, btcResponse >>
    /\ UNCHANGED << googlePrice, googleHistory, loading, error, eqPc, yahooResponse,
                    proxyAttempts >>

Render ==
    /\ mounted
    /\ queue # <<>>
    /\ ~savePending
    /\ ~patchPending
    /\ ventures' = ApplyQueue(queue, ventures)
    /\ queue' = <<>>
    /\ savePending' = TRUE
    /\ UNCHANGED << storage, crashed, mounted, patchPending, clock, ops >>
    /\ UNCHANGED btcVars
    /\ UNCHANGED eqVars

(***************************************************************************)
(* The passive effects of the last commit, in the order they are declared: *)
(* the save effect (deps [ventures]), the bitcoinValue effect.             *)
(***************************************************************************)
FlushEffects ==
    /\ mounted
    /\ savePending \/ patchPending
    /\ storage' = IF savePending THEN Stringify(ventures) ELSE storage
    /\ queue' = IF patchPending /\ bitcoinValue # Null
                THEN Append(queue, BitcoinEffectUpdate)
                ELSE queue
    /\ savePending' = FALSE
    /\ patchPending' = FALSE
    /\ UNCHANGED << crashed, mounted, ventures, clock, ops >>
    /\ UNCHANGED btcVars
    /\ UNCHANGED eqVars

(***************************************************************************)
(* fetchBitcoinPrice.                                                      *)
(* kind: "neterr"  fetch rejects                                           *)
(*       "notok"   response.ok is false                                    *)
(*       "badjson" response.json() rejects                                 *)
(*       "nocoin"  the payload has no bitcoin key                          *)
(*       "nousd"   payload {bitcoin: {}}                                   *)
(*       "ok"      payload {bitcoin: {usd: price}}                         *)
(***************************************************************************)
BtcReply(kind, price) == [kind |-> kind, price |-> price]

\* spot prices that make the position worth about 900 and about 1200 dollars
BtcPrices == {105646, 140861}

BtcReplies ==
    {BtcReply(k, 0) : k \in {"neterr", "notok", "badjson", "nocoin", "nousd"}}
        \cup {BtcReply("ok", p) : p \in BtcPrices}

\* the replies on which the try block throws and the catch block runs
BtcThrows(kind) == kind \in {"neterr", "notok", "badjson", "nocoin"}

\* data.bitcoin.usd, where the try block reads it
CurrentPrice(reply) ==
    IF reply.kind = "nousd" THEN Undefined ELSE Num(reply.price)

\* btcAmount * price, in cents: undefined gives NaN
BtcValue(price) ==
    IF price.t = "num" THEN Num(BtcValueCents(price.n)) ELSE NaN

fetchBitcoinPrice(reply) ==
    /\ btcPc = "fetching"
    /\ btcPc' = "done"
    /\ btcResponse' = reply.kind
    /\ IF BtcThrows(reply.kind)
       THEN /\ bitcoinPrice' = Num(estimatedPrice)
            /\ bitcoinValue' = BtcValue(Num(estimatedPrice))
       ELSE /\ bitcoinPrice' = CurrentPrice(reply)
            /\ bitcoinValue' = BtcValue(CurrentPrice(reply))
    \* bitcoinValue was null: the commit schedules the effect with deps [bitcoinValue]
    /\ patchPending' = TRUE
    /\ UNCHANGED << storage, crashed, mounted, ventures, queue, savePending,
                    clock, ops >>
    /\ UNCHANGED eqVars

(***************************************************************************)
(* fetchGoogleStock.                                                       *)
(* kind: "neterr"       fetch rejects                                      *)
(*       "notok"        response.ok is false                               *)
(*       "badshape"     response.json() rejects, or data.chart.result[0]   *)
(*                      or result.indicators.quote[0] cannot be read       *)
(*       "notimestamps" result has no timestamp array                      *)
(*       "noclose"      quote[0] has no close array                        *)
(*       "ok"           timestamp and close arrays (closes, in cents)      *)
(***************************************************************************)
EqReply(kind, closes) == [kind |-> kind, closes |-> closes]

CloseSeries ==
    { << Num(9100), Num(10000) >>,
      << Num(8983) >>,
      << Num(4000) >>,
      << Num(9100), Null >> }

EqReplies ==
    {EqReply(k, <<>>) : k \in {"neterr", "notok", "badshape", "notimestamps",
                               "noclose"}}
        \cup {EqReply("ok", c) : c \in CloseSeries}

\* fetchFromYahoo / fetchViaProxy throw on these replies
RouteThrows(kind) == kind \in {"neterr", "notok", "badshape"}

\* timestamps.map(...).filter(d => d.stockValue !== null), from index i on
RECURSIVE BuildHistory(_, _)
BuildHistory(closes, i) ==
    IF i > Len(closes)
    THEN <<>>
    ELSE IF Truthy(closes[i])
         THEN << [ts |-> i, stockValue |-> RoundStockValue(closes[i].n)] >>
                  \o BuildHistory(closes, i + 1)
         ELSE BuildHistory(closes, i + 1)

\* months from START_DATE to now
NowMonths == 3

RECURSIVE Pow(_, _)
Pow(b, e) == IF e = 0 THEN 1 ELSE b * Pow(b, e - 1)

\* Math.round(INITIAL_INVESTMENT * Math.pow(1.027, m))
SyntheticValue(m) ==
    IF 3 * m <= 4
    THEN Pow(1027, m) * Pow(10, 4 - 3 * m)
    ELSE (Pow(1027, m) + (Pow(10, 3 * m - 4) \div 2)) \div Pow(10, 3 * m - 4)

SyntheticHistory ==
    [i \in 1..(NowMonths + 1) |-> [ts |-> i - 1, stockValue |-> SyntheticValue(i - 1)]]

\* prices[prices.length - 1]
LastClose(closes) == IF closes = <<>> THEN Undefined ELSE closes[Len(closes)]

\* the outer try block after a route returned `reply`, or its catch block
SettleEquity(reply) ==
    IF reply.kind = "ok"
    THEN /\ googleHistory' = [source |-> "live", points |-> BuildHistory(reply.closes, 1)]
         /\ googlePrice' = LastClose(reply.closes)
         /\ loading' = FALSE
         /\ UNCHANGED error
    ELSE /\ googlePrice' = Num(estimatedGooglePrice)
         /\ error' = Num(1)
         /\ googleHistory' = [source |-> "synthetic", points |-> SyntheticHistory]
         /\ loading' = FALSE

fetchFromYahoo(reply) ==
    /\ eqPc = "yahoo"
    /\ yahooResponse' = reply.kind
    /\ IF RouteThrows(reply.kind)
       THEN /\ eqPc' = "proxy"
            /\ proxyAttempts' = proxyAttempts + 1
            /\ UNCHANGED << googlePrice, googleHistory, loading, error >>
       ELSE /\ eqPc' = "done"
            /\ SettleEquity(reply)
            /\ UNCHANGED proxyAttempts
    /\ UNCHANGED storeVars
    /\ UNCHANGED btcVars

fetchViaProxy(reply) ==
    /\ eqPc = "proxy"
    /\ eqPc' = "done"
    /\ SettleEquity(reply)
    /\ UNCHANGED << yahooResponse, proxyAttempts >>
    /\ UNCHANGED storeVars
    /\ UNCHANGED btcVars

(***************************************************************************)
(* Derived values of a render.                                             *)
(***************************************************************************)
RECURSIVE SumRevenue(_)
SumRevenue(list) ==
    IF list = <<>> THEN 0
    ELSE ParseFloatOrZero(Head(list).revenue) + SumRevenue(Tail(list))

totalRevenue == SumRevenue(ventures)

currentStockValue ==
    IF Truthy(googlePrice) THEN Num(RoundStockValue(googlePrice.n)) ELSE Null

stockGain ==
    IF Truthy(currentStockValue)
    THEN Num(currentStockValue.n - INITIAL_INVESTMENT)
    ELSE Null

\* what follows "$" in the opportunity-cost line
Placeholder == [t |-> "---", n |-> 0]

opportunityCost ==
    IF Truthy(stockGain) THEN Num(stockGain.n - totalRevenue) ELSE Placeholder

(***************************************************************************)
(* Display strings.                                                        *)
(***************************************************************************)
\* three digits, zero-padded: a group after a thousands separator
Pad3(n) ==
    IF n < 10 THEN "00" \o ToString(n)
    ELSE IF n < 100 THEN "0" \o ToString(n)
    ELSE ToString(n)

\* digits of n >= 0 grouped in thousands (the en-US rendering)
RECURSIVE Grouped(_)
Grouped(n) ==
    IF n < 1000 THEN ToString(n)
    ELSE Grouped(n \div 1000) \o "," \o Pad3(n % 1000)

\* Number.prototype.toLocaleString(): the minus sign comes first
ToLocaleString(v) ==
    IF v.t = "num"
    THEN IF v.n < 0 THEN "-" \o Grouped(-v.n) ELSE Grouped(v.n)
    ELSE "NaN"

getBitcoinRevenueDisplay(venture) ==
    IF ~venture.isBitcoin
    THEN "$" \o ToLocaleString(Num(ParseFloatOrZero(venture.revenue)))
    ELSE IF bitcoinValue = Null
         THEN "..."
         ELSE LET profit == RoundProfit(bitcoinValue)
                  \* profit >= 0 is false for NaN
                  prefix == IF profit.t = "num" /\ profit.n >= 0 THEN "+" ELSE ""
              IN  prefix \o "$" \o ToLocaleString(profit)

(***************************************************************************)
(* Specification.                                                          *)
(***************************************************************************)
Next ==
    \/ MountEffects
    \/ \E name \in NameInputs, revenue \in RevenueInputs,
          expenses \in ExpensesInputs, now \in {clock, clock + 1} :
          addVenture(name, revenue, expenses, now)
    \/ \E i \in DOMAIN ventures : deleteVenture(ventures[i].id)
    \/ Render
    \/ FlushEffects
    \/ \E reply \in BtcReplies : fetchBitcoinPrice(reply)
    \/ \E reply \in EqReplies : fetchFromYahoo(reply)
    \/ \E reply \in EqReplies : fetchViaProxy(reply)

Spec == Init /\ [][Next]_vars

\* the venture store with the crypto fetch that patches it; the equity fetch,
\* which never reads or writes the store, stays in flight
StoreNext ==
    \/ MountEffects
    \/ \E name \in NameInputs, revenue \in RevenueInputs,
          expenses \in ExpensesInputs, now \in {clock, clock + 1} :
          addVenture(name, revenue, expenses, now)
    \/ \E i \in DOMAIN ventures : deleteVenture(ventures[i].id)
    \/ Render
    \/ FlushEffects
    \/ \E reply \in BtcReplies : fetchBitcoinPrice(reply)

StoreSpec == Init /\ [][StoreNext]_vars

\* the two fetches without clicks, under the scheduling the runtime gives:
\* every request is answered, every scheduled render and effect runs
FetchNext ==
    \/ MountEffects
    \/ Render
    \/ FlushEffects
    \/ \E reply \in BtcReplies : fetchBitcoinPrice(reply)
    \/ \E reply \in EqReplies : fetchFromYahoo(reply)
    \/ \E reply \in EqReplies : fetchViaProxy(reply)

FetchSpec == Init /\ [][FetchNext]_vars

FairFetchSpec ==
    /\ Init
    /\ [][FetchNext]_vars
    /\ WF_vars(MountEffects)
    /\ WF_vars(Render)
    /\ WF_vars(FlushEffects)
    /\ WF_vars(\E reply \in BtcReplies : fetchBitcoinPrice(reply))
    /\ WF_vars(\E reply \in EqReplies : fetchFromYahoo(reply))
    /\ WF_vars(\E reply \in EqReplies : fetchViaProxy(reply))

(***************************************************************************)
(* Properties.                                                             *)
(***************************************************************************)
\* nothing is scheduled: no effect pending, no update queued
Quiescent == mounted /\ ~savePending /\ ~patchPending /\ queue = <<>>

\* C1: whatever was persisted, once the store is initialized the venture list
\* holds exactly one record with isBitcoin, in every reachable state.
C1_ExactlyOneBitcoin == ~crashed => BitcoinCount(ventures) = 1

\* C2: no deleteVenture call, including the one made through the delete button
\* of an ordinary venture that shares the crypto record's id, removes a crypto
\* record: the list holds as many of them after the call as before.
C2_DeleteKeepsBitcoin ==
    [][(\E i \in DOMAIN ventures : deleteVenture(ventures[i].id))
          => BitcoinCount(ventures') = BitcoinCount(ventures)]_vars

\* C3: when the stored value is malformed JSON, or JSON that is not an array
\* (null, an object), load does not fail: the component initializes with the
\* seed list.
C3_ParseFailureFallsBack ==
    storage.kind \in {"malformed", "null", "object"}
        => ~crashed /\ ventures = initialVentures

\* C4: once the crypto fetch has settled with value V, in every quiescent state
\* every crypto record's revenue is round(V - 1000), whatever the interleaving
\* of addVenture, deleteVenture and the revenue patch.
C4_PatchedRevenueSurvives ==
    (Quiescent /\ btcPc = "done")
        => \A i \in DOMAIN ventures :
              ventures[i].isBitcoin => ventures[i].revenue = RoundProfit(bitcoinValue)

\* C5 as stated: every step that changes the venture list also leaves storage
\* holding the serialization of the new list (the write is part of the step).
C5_WriteInSameStep ==
    [][ventures' # ventures => storage' = Stringify(ventures')]_vars

\* C5 amended: the write is a step of its own after the commit. Whenever no
\* save effect is pending (so in every quiescent state) storage holds the
\* serialization of the committed list, and the list changes only when the
\* previous list had been written or the new one is written in that step.
C5_SavedBeforeNextRender ==
    /\ [](mounted /\ ~savePending => storage = Stringify(ventures))
    /\ [][ventures' # ventures =>
            (storage = Stringify(ventures) \/ storage' = Stringify(ventures'))]_vars

\* C5 witness: a quiescent state after an add and after the revenue patch
\* (a non-zero profit), with both mutations in storage.
C5_Witness ==
    /\ Quiescent
    /\ btcPc = "done"
    /\ Len(ventures) > Len(initialVentures)
    /\ \E i \in DOMAIN ventures :
          /\ ventures[i].isBitcoin
          /\ ventures[i].revenue = RoundProfit(bitcoinValue)
          /\ ventures[i].revenue # Num(0)
    /\ storage = Stringify(ventures)

\* C6: the synthetic series is produced only after exactly one attempt on the
\* proxy route, whatever made the primary route fail.
C6_ProxyBeforeSynthetic ==
    googleHistory.source = "synthetic" => proxyAttempts = 1

\* C7: a successful response with a malformed payload (no coin key, or the coin
\* key without a numeric fiat price) ends in the state a transport error ends
\* in: spot price 105000 and value (1000 / 117384.44) * 105000.
C7_MalformedLikeTransportError ==
    (btcPc = "done" /\ btcResponse \in {"badjson", "nocoin", "nousd"})
        => /\ bitcoinPrice = Num(estimatedPrice)
           /\ bitcoinValue = Num(BtcValueCents(estimatedPrice))

\* C8: the advisory is set whenever either fetch has settled through its
\* fallback, and is unset when both have settled with live data.
C8_AdvisoryMarksFallback ==
    /\ (eqPc = "done" /\ googleHistory.source = "synthetic") => error # Null
    /\ (btcPc = "done" /\ BtcThrows(btcResponse)) => error # Null
    /\ (eqPc = "done" /\ googleHistory.source = "live"
        /\ btcPc = "done" /\ ~BtcThrows(btcResponse)) => error = Null

\* C9: both fetches settle with their values set. Each fetch runs once and
\* nothing changes its results afterwards, so the values it must eventually
\* have are the ones it has when it is done: loading false and an equity
\* price, a crypto price and a crypto value that are not null.
C9_SettledWithValues ==
    /\ eqPc = "done" => (loading = FALSE /\ googlePrice # Null)
    /\ btcPc = "done" => (bitcoinPrice # Null /\ bitcoinValue # Null)

\* the part of C9 that holds under FairFetchSpec: a mounted component's fetches
\* both reach their end, in either order
FetchesSettle ==
    ~crashed => (<>(eqPc = "done" /\ loading = FALSE) /\ <>(btcPc = "done"))

\* C10: once the equity fetch has settled, currentStockValue and stockGain are
\* numbers and the opportunity cost shown is stockGain - totalRevenue; they are
\* unknown only while the fetch is pending.
C10_MetricsKnownOnceSettled ==
    IF eqPc = "done"
    THEN /\ IsNum(currentStockValue)
         /\ IsNum(stockGain)
         /\ opportunityCost = Num(stockGain.n - totalRevenue)
    ELSE /\ currentStockValue = Null
         /\ stockGain = Null
         /\ opportunityCost = Placeholder

\* C11: the crypto venture's revenue is shown signed: for a crypto value V with
\* profit p = round(V - 1000) the string is "+$p" when p >= 0 and "-$|p|" when
\* p < 0 (V = 900 gives "-$100", V = 1200 gives "+$200").
C11_SignedRevenueDisplay ==
    \A i \in DOMAIN ventures :
        (ventures[i].isBitcoin /\ bitcoinValue.t = "num")
            => LET p == RoundProfit(bitcoinValue).n
               IN  getBitcoinRevenueDisplay(ventures[i])
                     = IF p >= 0 THEN "+$" \o Grouped(p) ELSE "-$" \o Grouped(-p)

\* C12: the ids of the records in the venture list are pairwise distinct after
\* load and after every addVenture.
C12_DistinctIds ==
    ~crashed =>
        \A i, j \in DOMAIN ventures : i # j => ventures[i].id # ventures[j].id

\* C13: for every value found in storage on which load returns a list, saving
\* that list and loading again returns the same list: same records, same
\* order, no second crypto record.
C13_LoadIdempotent ==
    LET first == LoadVentures(storage)
    IN  first.ok => LoadVentures(Stringify(first.list)) = first

\* C13 witness: the component was constructed from a stored list without a
\* crypto record, and the list in memory is that list with the record appended.
C13_Witness ==
    /\ ~mounted
    /\ storage.kind = "array"
    /\ BitcoinCount(storage.list) = 0
    /\ ventures = Append(storage.list, bitcoinVenture)

\* C14: addVenture with a name that is empty or only blanks changes neither
\* the venture list nor the persisted list, whatever the list and the other
\* two fields are.
C14_BlankNameNoChange ==
    [][(\E name \in {"", "  "}, revenue \in RevenueInputs,
           expenses \in ExpensesInputs, now \in {clock, clock + 1} :
           addVenture(name, revenue, expenses, now))
          => (ventures' = ventures /\ storage' = storage /\ queue' = queue)]_vars

\* C14 witness: one click has been handled and the seed list is untouched:
\* a delete would have removed a record and an add with a name appended one.
C14_Witness ==
    /\ ops = 1
    /\ ventures = initialVentures
    /\ storage = Stringify(initialVentures)

\* a list as loaded from the seed (no persisted data), no click handled, and
\* the equity fetch settled with live data whose latest price is 100 dollars
FreshLoadPrice100 ==
    /\ ops = 0
    /\ Len(ventures) = Len(initialVentures)
    /\ \A i \in DOMAIN ventures : ventures[i].id = initialVentures[i].id
    /\ eqPc = "done"
    /\ googleHistory.source = "live"
    /\ googlePrice = Num(10000)

\* C15 as stated: in that scenario currentStockValue is 11135 and stockGain 1135.
C15_StockValue11135 ==
    FreshLoadPrice100 => (currentStockValue = Num(11135) /\ stockGain = Num(1135))

\* C15 amended: in that scenario currentStockValue is 11132 and stockGain 1132
\* (round(10000 / 89.83 * 100), and that less 10000).
C15_StockValue11132 ==
    FreshLoadPrice100 => (currentStockValue = Num(11132) /\ stockGain = Num(1132))

\* C15 witness: the scenario is reached and the metrics are numbers.
C15_Witness == FreshLoadPrice100 /\ IsNum(currentStockValue) /\ IsNum(stockGain)

====
